---- MODULE Spec2Model ----
(***************************************************************************)
(* A model of error_utils (dr8co/cpp_error_utils): the Error value, the    *)
(* ExtraError registry, the Result constructors and the fault translators  *)
(* try_catch, with_errno, invoke_with_syscall_api and                      *)
(* make_error_from_errno.                                                  *)
(*                                                                         *)
(* A std::string is a sequence of characters; a fixed message of a         *)
(* category is one element of that sequence.                               *)
(***************************************************************************)
EXTENDS Integers, Sequences, FiniteSets, TLC

VARIABLES
    tc,      \* the caller of try_catch: its position, arguments and the outcome
    errno,   \* the indicator, one cell per storage location
    pc,      \* each thread's position in the errno translators
    frame,   \* each thread's call frame: function, arguments, locals
    ret,     \* each thread's returned Result
    objs,    \* the Error objects a program holds, one per named slot
    q        \* the caller of the value operations: the call, its arguments, its result

vars == <<tc, errno, pc, frame, ret, objs, q>>

(***************************************************************************)
(* Bounds of the model.                                                    *)
(***************************************************************************)
MaxLen == 1          \* longest caller context and longest what() text
MaxErrno == 2        \* largest value an operation stores in errno
MaxFutureErrc == 2   \* largest std::future_errc value a future_error carries
MaxValue == 1        \* largest payload a wrapped operation returns
MaxUncataloged == 2  \* how far past the catalog an integer cast to ExtraError lies
MaxCandidates == 3   \* most arguments of one is_any_of call
MaxAlternatives == 3 \* longest list given to first_of

(***************************************************************************)
(* Text.                                                                   *)
(***************************************************************************)
TextsOver(S, n) == UNION {[1..k -> S] : k \in 0..n}

Contexts == TextsOver({"c"}, MaxLen)
Whats == TextsOver({"w"}, MaxLen)

\* "\x02", the byte try_catch appends to the text of a regex_error
STX == <<"STX">>

\* std::format("{}: {}", a, b)
Format2(a, b) == a \o <<":", " ">> \o b

ends_with(s, suffix) ==
    /\ Len(s) >= Len(suffix)
    /\ SubSeq(s, Len(s) - Len(suffix) + 1, Len(s)) = suffix

remove_suffix(s, n) == SubSeq(s, 1, Len(s) - n)

(***************************************************************************)
(* Error codes: a (category, value) pair.                                  *)
(***************************************************************************)
ErrorCode(c, v) == [cat |-> c, val |-> v]

\* std::error_code{}: value 0 of the system category
NoCode == ErrorCode("system", 0)

ExtraErrorNames ==
    << "invalid_argument", "length_error", "logic_error",
       "value_too_small", "nonexistent_local_time", "ambiguous_local_time",
       "format_error", "runtime_error",
       "bad_alloc", "bad_typeid", "bad_cast",
       "bad_optional_access", "bad_expected_access", "bad_variant_access",
       "bad_weak_ptr", "bad_function_call",
       "bad_exception", "exception", "unknown_exception",
       "unknown_error" >>

\* the value of an enumerator of enum class ExtraError (invalid_argument = 1)
ExtraError(name) ==
    CHOOSE i \in 1..Len(ExtraErrorNames) : ExtraErrorNames[i] = name

\* error_utils::make_error_code(ExtraError)
make_error_code(name) == ErrorCode("ExtraError", ExtraError(name))

\* the values of the std::errc enumerators the translators use
EINVAL == 22
ENOMEM == 12
EDOM == 33
ERANGE == 34
EOVERFLOW == 75

errc(name) ==
    CASE name = "invalid_argument" -> EINVAL
      [] name = "not_enough_memory" -> ENOMEM
      [] name = "argument_out_of_domain" -> EDOM
      [] name = "result_out_of_range" -> ERANGE
      [] name = "value_too_large" -> EOVERFLOW

\* std::make_error_code(std::errc)
std_make_error_code(v) == ErrorCode("generic", v)

\* ExtraErrorCategory::message
ExtraErrorCategory_message(ev) ==
    CASE ev = ExtraError("invalid_argument") -> <<"Invalid argument exception">>
      [] ev = ExtraError("length_error") -> <<"Length error exception">>
      [] ev = ExtraError("logic_error") -> <<"Logic error exception">>
      [] ev = ExtraError("value_too_small") -> <<"Value too small (underflow exception)">>
      [] ev = ExtraError("nonexistent_local_time") -> <<"Nonexistent local time exception">>
      [] ev = ExtraError("ambiguous_local_time") -> <<"Ambiguous local time exception">>
      [] ev = ExtraError("format_error") -> <<"Format error exception">>
      [] ev = ExtraError("runtime_error") -> <<"Runtime error exception">>
      [] ev = ExtraError("bad_alloc") -> <<"Bad allocation exception">>
      [] ev = ExtraError("bad_typeid") -> <<"Bad typeid exception">>
      [] ev = ExtraError("bad_cast") -> <<"Bad cast exception">>
      [] ev = ExtraError("bad_optional_access") -> <<"Bad optional access exception">>
      [] ev = ExtraError("bad_expected_access") -> <<"Bad expected access exception">>
      [] ev = ExtraError("bad_variant_access") -> <<"Bad variant access exception">>
      [] ev = ExtraError("bad_weak_ptr") -> <<"Bad weak pointer exception">>
      [] ev = ExtraError("bad_function_call") -> <<"Bad function call exception">>
      [] ev = ExtraError("bad_exception") -> <<"Bad exception">>
      [] ev = ExtraError("exception") -> <<"Exception caught">>
      [] ev = ExtraError("unknown_exception") -> <<"Unknown exception caught">>
      [] ev = ExtraError("unknown_error") -> <<"Unknown error">>
      [] OTHER -> <<"Unrecognized ExtraError">>

\* std::error_code::message: the message the code's category gives its value
error_code_message(code) ==
    IF code.cat = "ExtraError"
    THEN ExtraErrorCategory_message(code.val)
    ELSE <<code.cat \o " message " \o ToString(code.val)>>

(***************************************************************************)
(* class Error and Result<T>.                                              *)
(***************************************************************************)
\* Error(code, context)
Error(code, context) == [context_ |-> context, error_code_ |-> code]

\* Error::operator bool answering true for an Error that has a context
Error_bool_or_context(e) == e.error_code_.val # 0 \/ e.context_ # <<>>

\* Error::operator bool
Error_bool(e) == e.error_code_.val # 0

\* Error::message without the test for an empty context
message_always_formatted(e) == Format2(e.context_, error_code_message(e.error_code_))

\* Error::message
message(e) ==
    IF e.context_ = <<>>
    THEN error_code_message(e.error_code_)
    ELSE Format2(e.context_, error_code_message(e.error_code_))

\* Error::is(code), for a std::error_code or an enumerator that converts to one
Error_is(e, code) == e.error_code_ = code

\* Result<T>: std::expected<T, Error> holding a value ...
Success(v) == [kind |-> "Success", value |-> v]

\* ... holding no value (Result<void>) ...
SuccessVoid == [kind |-> "Success", void |-> TRUE]

\* ... or holding std::unexpected(Error)
Failure(e) == [kind |-> "Failure", error |-> e]

\* make_error<T>(code, context)
make_error(code, context) == Failure(Error(code, context))

(***************************************************************************)
(* make_error<T>(std::regex_constants::error_type, context).               *)
(***************************************************************************)
RegexErrorTypes ==
    { "error_collate", "error_ctype", "error_escape", "error_backref",
      "error_brack", "error_paren", "error_brace", "error_badbrace",
      "error_range", "error_space", "error_badrepeat", "error_complexity",
      "error_stack",
      "unrecognized" }   \* any other value, such as error_type(999)

\* create_unexpected without the test for the marker
create_unexpected_never_suppresses(context, err_code, msg) ==
    Failure(Error(err_code, IF context = <<>> THEN msg ELSE Format2(context, msg)))

\* the lambda create_unexpected of make_error(error_type): `context` is the
\* caller's string_view, which the lambda shortens in place
create_unexpected(context, err_code, msg) ==
    IF ends_with(context, STX)
    THEN Failure(Error(err_code, remove_suffix(context, 1)))
    ELSE Failure(Error(err_code,
                       IF context = <<>> THEN msg ELSE Format2(context, msg)))

make_error_regex(code, context) ==
    CASE code = "error_collate" ->
           create_unexpected(context, std_make_error_code(errc("invalid_argument")),
                             <<"Regex error: invalid collating element name">>)
      [] code = "error_ctype" ->
           create_unexpected(context, std_make_error_code(errc("invalid_argument")),
                             <<"Regex error: invalid character class name">>)
      [] code = "error_escape" ->
           create_unexpected(context, std_make_error_code(errc("invalid_argument")),
                             <<"Regex error: invalid escaped character or a trailing escape">>)
      [] code = "error_backref" ->
           create_unexpected(context, std_make_error_code(errc("invalid_argument")),
                             <<"Regex error: invalid back reference">>)
      [] code = "error_brack" ->
           create_unexpected(context, std_make_error_code(errc("invalid_argument")),
                             <<"Regex error: mismatched square brackets ('[' and ']')">>)
      [] code = "error_paren" ->
           create_unexpected(context, std_make_error_code(errc("invalid_argument")),
                             <<"Regex error: mismatched parentheses ('(' and ')')">>)
      [] code = "error_brace" ->
           create_unexpected(context, std_make_error_code(errc("invalid_argument")),
                             <<"Regex error: mismatched curly braces ('{' and '}')">>)
      [] code = "error_badbrace" ->
           create_unexpected(context, std_make_error_code(errc("invalid_argument")),
                             <<"Regex error: invalid range in a {} expression">>)
      [] code = "error_range" ->
           create_unexpected(context, std_make_error_code(errc("invalid_argument")),
                             <<"Regex error: invalid character range">>)
      [] code = "error_space" ->
           create_unexpected(context, std_make_error_code(errc("not_enough_memory")),
                             <<"Regex error: insufficient memory to convert the expression into a finite state machine">>)
      [] code = "error_badrepeat" ->
           create_unexpected(context, std_make_error_code(errc("invalid_argument")),
                             <<"Regex error: '*', '?', '+' or '{' was not preceded by a valid regular expression">>)
      [] code = "error_complexity" ->
           create_unexpected(context, std_make_error_code(errc("result_out_of_range")),
                             <<"Regex error: the complexity of an attempted match exceeded a predefined level">>)
      [] code = "error_stack" ->
           create_unexpected(context, std_make_error_code(errc("not_enough_memory")),
                             <<"Regex error: insufficient memory to perform a match">>)
      [] OTHER ->
           create_unexpected(context, make_error_code("unknown_error"),
                             <<"Regex error: unknown error">>)

(***************************************************************************)
(* The faults a wrapped operation can raise.  A fault has a dynamic type,  *)
(* the text what() returns and, for the types that carry one, a code.      *)
(***************************************************************************)
\* the direct base class of each type the standard library throws;
\* "none" for std::exception itself and for a thrown non-class value
Base(t) ==
    CASE t \in {"invalid_argument", "domain_error", "length_error",
                "out_of_range", "future_error"} -> "logic_error"
      [] t \in {"range_error", "overflow_error", "underflow_error",
                "regex_error", "system_error", "nonexistent_local_time",
                "ambiguous_local_time", "format_error"} -> "runtime_error"
      [] t = "ios_base_failure" -> "system_error"
      [] t = "bad_array_new_length" -> "bad_alloc"
      [] t = "bad_any_cast" -> "bad_cast"
      [] t \in {"logic_error", "runtime_error", "bad_alloc", "bad_typeid",
                "bad_cast", "bad_optional_access", "bad_expected_access",
                "bad_variant_access", "bad_weak_ptr", "bad_function_call",
                "bad_exception"} -> "exception"
      [] OTHER -> "none"

RECURSIVE IsA(_, _)
\* an object of dynamic type t binds to a handler of type const h &
IsA(t, h) ==
    IF t = h THEN TRUE
    ELSE IF Base(t) = "none" THEN FALSE
    ELSE IsA(Base(t), h)

NoFault == [type |-> "none", what |-> <<>>, code |-> NoCode, rcode |-> "none"]

Fault(t, w, c, r) == [type |-> t, what |-> w, code |-> c, rcode |-> r]

PlainTypes ==
    { "invalid_argument", "domain_error", "length_error", "out_of_range",
      "logic_error", "range_error", "overflow_error", "underflow_error",
      "nonexistent_local_time", "ambiguous_local_time", "format_error",
      "runtime_error", "bad_alloc", "bad_array_new_length", "bad_typeid",
      "bad_cast", "bad_any_cast", "bad_optional_access",
      "bad_expected_access", "bad_variant_access", "bad_weak_ptr",
      "bad_function_call", "bad_exception", "exception" }

SystemCodes == {ErrorCode(c, v) : c \in {"generic", "system"}, v \in 1..MaxErrno}
FutureCodes == {ErrorCode("future", v) : v \in 1..MaxFutureErrc}

Faults ==
    {Fault(t, w, NoCode, "none") : t \in PlainTypes, w \in Whats}
    \cup {Fault(t, w, c, "none") :
            t \in {"system_error", "ios_base_failure"}, w \in Whats, c \in SystemCodes}
    \cup {Fault("future_error", w, c, "none") : w \in Whats, c \in FutureCodes}
    \cup {Fault("regex_error", w, NoCode, r) : w \in Whats, r \in RegexErrorTypes}
    \cup {Fault("int", <<>>, NoCode, "none")}    \* throw 42;

\* a wrapped operation: it returns `value`, or raises `thrown`
Returns(v) == [throws |-> FALSE, value |-> v, thrown |-> NoFault]
Throws(e) == [throws |-> TRUE, value |-> 0, thrown |-> e]
Funcs == {Returns(v) : v \in 0..MaxValue} \cup {Throws(e) : e \in Faults}

(***************************************************************************)
(* try_catch(func, context).                                               *)
(***************************************************************************)
\* the handlers with the two family bases written ahead of their derived types
HandlersBaseFirst ==
    << "logic_error", "invalid_argument", "domain_error", "length_error",
       "out_of_range", "future_error",
       "runtime_error", "range_error", "overflow_error", "underflow_error",
       "regex_error", "system_error", "nonexistent_local_time",
       "ambiguous_local_time", "format_error",
       "bad_alloc", "bad_typeid", "bad_cast",
       "bad_optional_access", "bad_expected_access", "bad_variant_access",
       "bad_weak_ptr", "bad_function_call", "bad_exception",
       "exception", "..." >>

\* the handlers without the final catch (...)
HandlersNoCatchAll ==
    << "invalid_argument", "domain_error", "length_error", "out_of_range",
       "future_error", "logic_error",
       "range_error", "overflow_error", "underflow_error", "regex_error",
       "system_error", "nonexistent_local_time", "ambiguous_local_time",
       "format_error", "runtime_error",
       "bad_alloc", "bad_typeid", "bad_cast",
       "bad_optional_access", "bad_expected_access", "bad_variant_access",
       "bad_weak_ptr", "bad_function_call", "bad_exception",
       "exception" >>

\* the handlers of the try block, in the order they are written
Handlers ==
    << "invalid_argument", "domain_error", "length_error", "out_of_range",
       "future_error", "logic_error",
       "range_error", "overflow_error", "underflow_error", "regex_error",
       "system_error", "nonexistent_local_time", "ambiguous_local_time",
       "format_error", "runtime_error",
       "bad_alloc", "bad_typeid", "bad_cast",
       "bad_optional_access", "bad_expected_access", "bad_variant_access",
       "bad_weak_ptr", "bad_function_call", "bad_exception",
       "exception", "..." >>

\* handler h can catch fault e
Matches(h, e) == h = "..." \/ IsA(e.type, h)

\* the index of the handler that runs: the first that matches; 0 when none does
FirstMatch(hs, e) ==
    IF \E i \in 1..Len(hs) : Matches(hs[i], e)
    THEN CHOOSE i \in 1..Len(hs) :
            /\ Matches(hs[i], e)
            /\ \A j \in 1..(i - 1) : ~Matches(hs[j], e)
    ELSE 0

\* create_error passing the caller's context on without the default message
create_error_context_only(context, code, default_msg) == make_error(code, context)

\* the lambda create_error, called with a std::error_code, ExtraError or std::errc
create_error(context, code, default_msg) ==
    make_error(code, IF context = <<>> THEN default_msg
                     ELSE Format2(context, default_msg))

\* the lambda create_error, called with a std::regex_constants::error_type
create_error_regex(context, code, default_msg) ==
    make_error_regex(code, IF context = <<>> THEN default_msg
                           ELSE Format2(context, default_msg))

\* the body of the handler of type h, run on the caught fault e
Handle(h, e, context) ==
    CASE h = "invalid_argument" ->
           create_error(context, make_error_code("invalid_argument"), e.what)
      [] h = "domain_error" ->
           create_error(context, std_make_error_code(errc("argument_out_of_domain")), e.what)
      [] h = "length_error" ->
           create_error(context, make_error_code("length_error"), e.what)
      [] h = "out_of_range" ->
           create_error(context, std_make_error_code(errc("result_out_of_range")), e.what)
      [] h = "future_error" -> create_error(context, e.code, e.what)
      [] h = "logic_error" ->
           create_error(context, make_error_code("logic_error"), e.what)
      [] h = "range_error" ->
           create_error(context, std_make_error_code(errc("result_out_of_range")), e.what)
      [] h = "overflow_error" ->
           create_error(context, std_make_error_code(errc("value_too_large")), e.what)
      [] h = "underflow_error" ->
           create_error(context, make_error_code("value_too_small"), e.what)
      [] h = "regex_error" -> create_error_regex(context, e.rcode, e.what \o STX)
      [] h = "system_error" -> create_error(context, e.code, <<>>)
      [] h = "nonexistent_local_time" ->
           create_error(context, make_error_code("nonexistent_local_time"), e.what)
      [] h = "ambiguous_local_time" ->
           create_error(context, make_error_code("ambiguous_local_time"), e.what)
      [] h = "format_error" ->
           create_error(context, make_error_code("format_error"), e.what)
      [] h = "runtime_error" ->
           create_error(context, make_error_code("runtime_error"), e.what)
      [] h = "bad_alloc" ->
           create_error(context, make_error_code("bad_alloc"), e.what)
      [] h = "bad_typeid" ->
           create_error(context, make_error_code("bad_typeid"), e.what)
      [] h = "bad_cast" ->
           create_error(context, make_error_code("bad_cast"), e.what)
      [] h = "bad_optional_access" ->
           create_error(context, make_error_code("bad_optional_access"), e.what)
      [] h = "bad_expected_access" ->
           create_error(context, make_error_code("bad_expected_access"), e.what)
      [] h = "bad_variant_access" ->
           create_error(context, make_error_code("bad_variant_access"), e.what)
      [] h = "bad_weak_ptr" ->
           create_error(context, make_error_code("bad_weak_ptr"), e.what)
      [] h = "bad_function_call" ->
           create_error(context, make_error_code("bad_function_call"), e.what)
      [] h = "bad_exception" ->
           create_error(context, make_error_code("bad_exception"), e.what)
      [] h = "exception" ->
           create_error(context, make_error_code("exception"), e.what)
      [] h = "..." ->
           create_error(context, make_error_code("unknown_exception"),
                        <<"Unknown exception">>)

\* the fault leaves try_catch: no handler caught it
Propagated(e) == [kind |-> "Propagated", fault |-> e]

try_catch(func, context) ==
    IF ~func.throws
    THEN Success(func.value)
    ELSE LET i == FirstMatch(Handlers, func.thrown)
         IN  IF i = 0 THEN Propagated(func.thrown)
             ELSE Handle(Handlers[i], func.thrown, context)

(***************************************************************************)
(* The errno translators, run by threads.  errno is a thread-local         *)
(* lvalue: each thread reads and writes its own cell.                      *)
(***************************************************************************)
Threads == {"t1", "t2"}

\* one cell for the whole process
errno_location_shared(t) == "t1"

\* the cell the macro errno designates in thread t
errno_location(t) == t

\* a wrapped operation: it may store `val` in errno, and returns `returns`
Op(w, v, r) == [writes |-> w, val |-> v, returns |-> r]
NoOp == Op(FALSE, 0, 0)
Rets == {-2, -1} \cup 0..MaxValue
Ops == {Op(FALSE, 0, r) : r \in Rets}
       \cup {Op(TRUE, v, r) : v \in 1..MaxErrno, r \in Rets}
\* an operation returning void
VoidOps == {Op(FALSE, 0, 0)} \cup {Op(TRUE, v, 0) : v \in 1..MaxErrno}

NoResult == [kind |-> "none"]

\* fn, context, op: the call; result, err: the locals of with_errno,
\* invoke_with_syscall_api and last_error; entry, before, after: the value of
\* the thread's errno when the call began, when op began and when op returned
IdleFrame ==
    [fn |-> "none", context |-> <<>>, op |-> NoOp, result |-> 0, err |-> 0,
     entry |-> 0, before |-> 0, after |-> 0]

\* code outside the library stores v in errno
SetErrno(t, v) ==
    /\ pc[t] = "idle"
    /\ errno[errno_location(t)] # v
    /\ errno' = [errno EXCEPT ![errno_location(t)] = v]
    /\ UNCHANGED <<tc, pc, frame, ret, objs, q>>

\* the call begins: the arguments are bound
Call(t, fn, context, op) ==
    /\ pc[t] = "idle"
    /\ pc' = [pc EXCEPT ![t] = IF fn = "make_error_from_errno"
                               THEN "last_error" ELSE "reset"]
    /\ frame' = [frame EXCEPT ![t] =
                   [IdleFrame EXCEPT !.fn = fn, !.context = context, !.op = op,
                                     !.entry = errno[errno_location(t)]]]
    /\ UNCHANGED <<tc, errno, ret, objs, q>>

\* the calls of each translator, with a context drawn from ctxs
CallWithErrno(t, ctxs) ==
    \E context \in ctxs, op \in Ops : Call(t, "with_errno", context, op)

CallWithErrnoVoid(t, ctxs) ==
    \E context \in ctxs, op \in VoidOps : Call(t, "with_errno_void", context, op)

CallInvokeWithSyscallApi(t, ctxs) ==
    \E context \in ctxs, op \in Ops : Call(t, "invoke_with_syscall_api", context, op)

CallMakeErrorFromErrno(t, ctxs) ==
    \E context \in ctxs : Call(t, "make_error_from_errno", context, NoOp)

\* func is called without errno being cleared first
ResetErrnoSkipped(t) ==
    /\ pc[t] = "reset"
    /\ pc' = [pc EXCEPT ![t] = "run"]
    /\ UNCHANGED <<tc, errno, frame, ret, objs, q>>

\* errno = 0; before func is called
ResetErrno(t) ==
    /\ pc[t] = "reset"
    /\ errno' = [errno EXCEPT ![errno_location(t)] = 0]
    /\ pc' = [pc EXCEPT ![t] = "run"]
    /\ UNCHANGED <<tc, frame, ret, objs, q>>

\* R result = func();
RunFunc(t) ==
    /\ pc[t] = "run"
    /\ LET op == frame[t].op
           after == IF op.writes THEN op.val ELSE errno[errno_location(t)]
       IN  /\ errno' = [errno EXCEPT ![errno_location(t)] = after]
           /\ frame' = [frame EXCEPT ![t].result = op.returns,
                                     ![t].before = errno[errno_location(t)],
                                     ![t].after = after]
    /\ pc' = [pc EXCEPT ![t] = "check"]
    /\ UNCHANGED <<tc, ret, objs, q>>

\* with_errno testing the returned value for -1 where it should test errno
with_errno_check_sentinel(t) ==
    /\ pc[t] = "check"
    /\ frame[t].fn \in {"with_errno", "with_errno_void"}
    /\ IF frame[t].result = -1
       THEN /\ pc' = [pc EXCEPT ![t] = "last_error"]
            /\ ret' = ret
       ELSE /\ pc' = [pc EXCEPT ![t] = "done"]
            /\ ret' = [ret EXCEPT ![t] = IF frame[t].fn = "with_errno_void"
                                         THEN SuccessVoid
                                         ELSE Success(frame[t].result)]
    /\ UNCHANGED <<tc, errno, frame, objs, q>>

\* with_errno: if (errno != 0) return make_error_from_errno<R>(error_context);
\*             return result;   (return {}; when R is void)
with_errno_check(t) ==
    /\ pc[t] = "check"
    /\ frame[t].fn \in {"with_errno", "with_errno_void"}
    /\ IF errno[errno_location(t)] # 0
       THEN /\ pc' = [pc EXCEPT ![t] = "last_error"]
            /\ ret' = ret
       ELSE /\ pc' = [pc EXCEPT ![t] = "done"]
            /\ ret' = [ret EXCEPT ![t] = IF frame[t].fn = "with_errno_void"
                                         THEN SuccessVoid
                                         ELSE Success(frame[t].result)]
    /\ UNCHANGED <<tc, errno, frame, objs, q>>

\* invoke_with_syscall_api taking every negative value for the sentinel
invoke_check_negative(t) ==
    /\ pc[t] = "check"
    /\ frame[t].fn = "invoke_with_syscall_api"
    /\ IF frame[t].result < 0
       THEN /\ pc' = [pc EXCEPT ![t] = "last_error"]
            /\ ret' = ret
       ELSE /\ pc' = [pc EXCEPT ![t] = "done"]
            /\ ret' = [ret EXCEPT ![t] = Success(frame[t].result)]
    /\ UNCHANGED <<tc, errno, frame, objs, q>>

\* invoke_with_syscall_api:
\*   if (result == -1) return make_error_from_errno<int>(error_context);
\*   return result;
invoke_check(t) ==
    /\ pc[t] = "check"
    /\ frame[t].fn = "invoke_with_syscall_api"
    /\ IF frame[t].result = -1
       THEN /\ pc' = [pc EXCEPT ![t] = "last_error"]
            /\ ret' = ret
       ELSE /\ pc' = [pc EXCEPT ![t] = "done"]
            /\ ret' = [ret EXCEPT ![t] = Success(frame[t].result)]
    /\ UNCHANGED <<tc, errno, frame, objs, q>>

\* last_error: int err = errno;
last_error_read(t) ==
    /\ pc[t] = "last_error"
    /\ frame' = [frame EXCEPT ![t].err = errno[errno_location(t)]]
    /\ pc' = [pc EXCEPT ![t] = "last_error_reset"]
    /\ UNCHANGED <<tc, errno, ret, objs, q>>

\* last_error returning the code and leaving errno as it is
last_error_no_reset(t) ==
    /\ pc[t] = "last_error_reset"
    /\ ret' = [ret EXCEPT ![t] = make_error(std_make_error_code(frame[t].err),
                                            frame[t].context)]
    /\ pc' = [pc EXCEPT ![t] = "done"]
    /\ UNCHANGED <<tc, errno, frame, objs, q>>

\* last_error: errno = 0; return std::make_error_code(static_cast<std::errc>(err));
\* make_error_from_errno: return make_error<T>(last_error(), context);
last_error_reset(t) ==
    /\ pc[t] = "last_error_reset"
    /\ errno' = [errno EXCEPT ![errno_location(t)] = 0]
    /\ ret' = [ret EXCEPT ![t] = make_error(std_make_error_code(frame[t].err),
                                            frame[t].context)]
    /\ pc' = [pc EXCEPT ![t] = "done"]
    /\ UNCHANGED <<tc, frame, objs, q>>

\* the caller has the Result and goes on
Return(t) ==
    /\ pc[t] = "done"
    /\ pc' = [pc EXCEPT ![t] = "idle"]
    /\ frame' = [frame EXCEPT ![t] = IdleFrame]
    /\ ret' = [ret EXCEPT ![t] = NoResult]
    /\ UNCHANGED <<tc, errno, objs, q>>

(***************************************************************************)
(* The caller of try_catch.                                                *)
(***************************************************************************)
TcIdle == [pc |-> "idle", func |-> Returns(0), context |-> <<>>, result |-> NoResult]

\* try_catch(func, context) is called and returns, or lets a fault through
TryCatchCall ==
    /\ tc.pc = "idle"
    /\ \E func \in Funcs, context \in Contexts :
         tc' = [pc |-> "done", func |-> func, context |-> context,
                result |-> try_catch(func, context)]
    /\ UNCHANGED <<errno, pc, frame, ret, objs, q>>

TryCatchDone ==
    /\ tc.pc = "done"
    /\ tc' = TcIdle
    /\ UNCHANGED <<errno, pc, frame, ret, objs, q>>

(***************************************************************************)
(* Error conditions and the comparisons between codes and conditions.      *)
(***************************************************************************)
ExtraErrorConditionNames ==
    << "logic_error", "runtime_error", "resource_error", "access_error",
       "other_error" >>

\* the value of an enumerator of enum class ExtraErrorCondition (logic_error = 1)
ExtraErrorCondition(name) ==
    CHOOSE i \in 1..Len(ExtraErrorConditionNames) : ExtraErrorConditionNames[i] = name

\* std::error_condition: a (category, value) pair
ErrorCondition(c, v) == [cat |-> c, val |-> v]

\* error_utils::make_error_condition(ExtraErrorCondition)
make_error_condition(name) ==
    ErrorCondition("ExtraErrorCondition", ExtraErrorCondition(name))

\* ExtraErrorCategory::default_error_condition with every case answering
\* other_error
default_error_condition_all_other(ev) == make_error_condition("other_error")

\* ExtraErrorCategory::default_error_condition
default_error_condition(ev) ==
    CASE ev \in {ExtraError("invalid_argument"), ExtraError("length_error"),
                 ExtraError("logic_error")}
           -> make_error_condition("logic_error")
      [] ev \in {ExtraError("value_too_small"), ExtraError("nonexistent_local_time"),
                 ExtraError("ambiguous_local_time"), ExtraError("format_error"),
                 ExtraError("runtime_error")}
           -> make_error_condition("runtime_error")
      [] ev \in {ExtraError("bad_alloc"), ExtraError("bad_typeid"),
                 ExtraError("bad_cast")}
           -> make_error_condition("resource_error")
      [] ev \in {ExtraError("bad_optional_access"), ExtraError("bad_expected_access"),
                 ExtraError("bad_variant_access"), ExtraError("bad_weak_ptr"),
                 ExtraError("bad_function_call")}
           -> make_error_condition("access_error")
      [] ev \in {ExtraError("bad_exception"), ExtraError("exception"),
                 ExtraError("unknown_exception"), ExtraError("unknown_error")}
           -> make_error_condition("other_error")
      [] OTHER -> make_error_condition("other_error")

\* code.category().default_error_condition(code.value()): the registry's
\* table for an ExtraError code; for the system category the generic
\* condition of a POSIX errno value (zero included); otherwise the value
\* in the code's own category
category_default_error_condition(code) ==
    IF code.cat = "ExtraError" THEN default_error_condition(code.val)
    ELSE IF code.cat = "system" /\ code.val >= 0
    THEN ErrorCondition("generic", code.val)
    ELSE ErrorCondition(code.cat, code.val)

\* operator==(std::error_code, std::error_code) looking at the values only
error_code_eq_value_only(a, b) == a.val = b.val

\* operator==(std::error_code, std::error_code): same category, same value
error_code_eq(a, b) == a.cat = b.cat /\ a.val = b.val

\* operator==(std::error_code, std::error_condition) matching the raw
\* (category, value) pairs
error_code_eq_condition_raw(code, cond) == cond.cat = code.cat /\ code.val = cond.val

\* operator==(std::error_code, std::error_condition):
\* code.category().equivalent(code.value(), cond)
\*   || cond.category().equivalent(code, cond.value())
error_code_eq_condition(code, cond) ==
    \/ category_default_error_condition(code) = cond
    \/ (cond.cat = code.cat /\ code.val = cond.val)

\* operator==(const Error &, const Error &)
Error_eq(lhs, rhs) == error_code_eq(lhs.error_code_, rhs.error_code_)

\* operator==(const Error &, const std::error_condition &)
Error_eq_condition(lhs, rhs) == error_code_eq_condition(lhs.error_code_, rhs)

\* Error::is for an ExtraErrorCondition: the error_condition branch
Error_is_condition(e, name) ==
    error_code_eq_condition(e.error_code_, make_error_condition(name))

\* Error::is_any_of looking at its first argument only
is_any_of_first_only(e, codes) == Error_is(e, Head(codes))

\* Error::is_any_of(code, others...): is(code) || (is(others) || ...)
RECURSIVE is_any_of(_, _)
is_any_of(e, codes) ==
    IF Len(codes) = 1
    THEN Error_is(e, Head(codes))
    ELSE Error_is(e, Head(codes)) \/ is_any_of(e, Tail(codes))

\* the std::errc enumerators the model names
ErrcNames ==
    {"invalid_argument", "not_enough_memory", "argument_out_of_domain",
     "result_out_of_range", "value_too_large"}

\* Error::is(std::errc::x): std::errc satisfies convertible_to_error_code
\* (std::make_error_code(std::errc) exists), so the make_error_code branch runs
Error_is_errc(e, name) ==
    error_code_eq(e.error_code_, std_make_error_code(errc(name)))

\* e == std::errc::x: std::errc converts implicitly to std::error_condition
\* only, so operator==(const Error &, const std::error_condition &) runs
Error_eq_errc(e, name) ==
    Error_eq_condition(e, ErrorCondition("generic", errc(name)))

\* the orders in which a build can lay out the category objects:
\* std::error_category is ordered by address
CategoryOrders ==
    {o \in [{"system", "generic", "ExtraError"} -> 1..3] :
        \A c1 \in DOMAIN o, c2 \in DOMAIN o : o[c1] = o[c2] => c1 = c2}

\* operator<=>(std::error_code, std::error_code) looking at the values only
error_code_compare_value_only(order, a, b) ==
    IF a.val < b.val THEN "less"
    ELSE IF a.val > b.val THEN "greater"
    ELSE "equal"

\* operator<=>(std::error_code, std::error_code): the categories first, then
\* the values
error_code_compare(order, a, b) ==
    IF order[a.cat] < order[b.cat] THEN "less"
    ELSE IF order[a.cat] > order[b.cat] THEN "greater"
    ELSE IF a.val < b.val THEN "less"
    ELSE IF a.val > b.val THEN "greater"
    ELSE "equal"

\* operator<=>(const Error &, const Error &)
Error_compare(order, lhs, rhs) ==
    error_code_compare(order, lhs.error_code_, rhs.error_code_)

\* lhs < rhs, rewritten by the compiler as (lhs <=> rhs) < 0
Error_less(order, lhs, rhs) == Error_compare(order, lhs, rhs) = "less"

\* std::hash<std::error_code>: a combination of the value and of the address
\* of the category
hash_error_code(order, code) == <<order[code.cat], code.val>>

\* std::hash<error_utils::Error>
Error_hash(order, error) == hash_error_code(order, error.error_code_)

(***************************************************************************)
(* Error objects: construction, copy, move and swap.                       *)
(***************************************************************************)
Slots == {"e1", "e2", "e3"}

Categories == {"system", "generic", "ExtraError"}

\* the codes a program gives to the constructor
ObjCodes == {ErrorCode(c, v) : c \in Categories, v \in 0..MaxErrno}

\* the contexts a program gives to the constructor: none, or one
ObjContexts == {<<>>, <<"c">>}

\* Error(): context_{} and error_code_{}
DefaultError == Error(NoCode, <<>>)

\* Error e; in slot d of the objects o
default_construct(o, d) == [o EXCEPT ![d] = DefaultError]

\* Error e{code, context}; in slot d
construct(o, d, code, context) == [o EXCEPT ![d] = Error(code, context)]

\* Error d{s}; the defaulted copy constructor copies both members
copy_construct(o, d, s) == [o EXCEPT ![d] = Error(o[s].error_code_, o[s].context_)]

\* Error d{std::move(s)} leaving the context in s as well
move_construct_keeps_source(o, d, s) ==
    [o EXCEPT ![d] = Error(o[s].error_code_, o[s].context_)]

\* Error d{std::move(s)}: the context is moved out of s (the moved-from
\* string is left empty), the code is copied
move_construct(o, d, s) ==
    [o EXCEPT ![d] = Error(o[s].error_code_, o[s].context_),
              ![s] = Error(o[s].error_code_, <<>>)]

\* d = s; with its test for self-assignment
copy_assign(o, d, s) ==
    IF d = s THEN o
    ELSE [o EXCEPT ![d] = Error(o[s].error_code_, o[s].context_)]

\* d = std::move(s) leaving s in the state of Error()
move_assign_resets_source(o, d, s) ==
    IF d = s THEN o
    ELSE [o EXCEPT ![d] = Error(o[s].error_code_, o[s].context_),
                   ![s] = DefaultError]

\* d = std::move(s); with its test for self-assignment
move_assign(o, d, s) ==
    IF d = s THEN o
    ELSE [o EXCEPT ![d] = Error(o[s].error_code_, o[s].context_),
                   ![s] = Error(o[s].error_code_, <<>>)]

\* Error e;
DefaultConstruct(s) ==
    /\ objs' = default_construct(objs, s)
    /\ UNCHANGED <<tc, errno, pc, frame, ret, q>>

\* Error e{code, context};
Construct(s, code, context) ==
    /\ objs' = construct(objs, s, code, context)
    /\ UNCHANGED <<tc, errno, pc, frame, ret, q>>

\* Error d{s};
CopyConstruct(d, s) ==
    /\ d # s
    /\ objs' = copy_construct(objs, d, s)
    /\ UNCHANGED <<tc, errno, pc, frame, ret, q>>

\* Error d{std::move(s)};
MoveConstruct(d, s) ==
    /\ d # s
    /\ objs' = move_construct(objs, d, s)
    /\ UNCHANGED <<tc, errno, pc, frame, ret, q>>

\* d = s;
CopyAssign(d, s) ==
    /\ objs' = copy_assign(objs, d, s)
    /\ UNCHANGED <<tc, errno, pc, frame, ret, q>>

\* d = std::move(s);
MoveAssign(d, s) ==
    /\ objs' = move_assign(objs, d, s)
    /\ UNCHANGED <<tc, errno, pc, frame, ret, q>>

\* swap exchanging the contexts only
swap_contexts_only(o, lhs, rhs) ==
    [o EXCEPT ![lhs] = Error(o[lhs].error_code_, o[rhs].context_),
              ![rhs] = Error(o[rhs].error_code_, o[lhs].context_)]

\* swap(Error &lhs, Error &rhs) on the objects o: both members are swapped
swap(o, lhs, rhs) ==
    [o EXCEPT ![lhs] = Error(o[rhs].error_code_, o[rhs].context_),
              ![rhs] = Error(o[lhs].error_code_, o[lhs].context_)]

\* swap(lhs, rhs);
Swap(lhs, rhs) ==
    /\ objs' = swap(objs, lhs, rhs)
    /\ UNCHANGED <<tc, errno, pc, frame, ret, q>>

(***************************************************************************)
(* first_of.                                                               *)
(***************************************************************************)
\* the loop of first_of putting each message in front of combined_errors
RECURSIVE first_of_loop_reversed(_, _)
first_of_loop_reversed(results, combined_errors) ==
    IF results = <<>>
    THEN make_error(make_error_code("unknown_error"), combined_errors)
    ELSE IF Head(results).kind = "Success"
    THEN Head(results)
    ELSE first_of_loop_reversed(
             Tail(results),
             message(Head(results).error)
                 \o (IF combined_errors # <<>> THEN <<";", " ">> ELSE <<>>)
                 \o combined_errors)

\* the loop of first_of over the results not yet visited, and the return
\* after it
RECURSIVE first_of_loop(_, _)
first_of_loop(results, combined_errors) ==
    IF results = <<>>
    THEN make_error(make_error_code("unknown_error"), combined_errors)
    ELSE IF Head(results).kind = "Success"
    THEN Head(results)
    ELSE first_of_loop(
             Tail(results),
             (IF combined_errors # <<>>
              THEN combined_errors \o <<";", " ">>
              ELSE combined_errors) \o message(Head(results).error))

\* first_of returning the last Success of the list
first_of_last_success(results) ==
    IF \E i \in 1..Len(results) : results[i].kind = "Success"
    THEN results[CHOOSE i \in 1..Len(results) :
                     /\ results[i].kind = "Success"
                     /\ \A j \in (i + 1)..Len(results) : results[j].kind # "Success"]
    ELSE first_of_loop(results, <<>>)

\* first_of without the check for an empty list
first_of_no_size_check(results) == first_of_loop(results, <<>>)

\* first_of(std::initializer_list<Result<T>>)
first_of(results) ==
    IF Len(results) = 0
    THEN make_error(std_make_error_code(errc("invalid_argument")),
                    <<"No alternatives provided">>)
    ELSE first_of_loop(results, <<>>)

(***************************************************************************)
(* transform and and_then.  The function given to them is a table from the *)
(* payload to what it returns ("void" stands for the call without an       *)
(* argument); `calls` lists the arguments the function was invoked with.   *)
(***************************************************************************)
Invoked(value, calls) == [value |-> value, calls |-> calls]

\* the argument transform and and_then invoke the function with
payload(result) == IF "void" \in DOMAIN result THEN "void" ELSE result.value

\* transform forwarding the code of a Failure without its context
transform_drops_context(result, transform_func) ==
    IF result.kind = "Success"
    THEN Invoked(Success(transform_func[payload(result)]), <<payload(result)>>)
    ELSE Invoked(Failure(Error(result.error.error_code_, <<>>)), <<>>)

\* transform(Result<T> result, Func &&transform_func)
transform(result, transform_func) ==
    IF result.kind = "Success"
    THEN Invoked(Success(transform_func[payload(result)]), <<payload(result)>>)
    ELSE Invoked(Failure(result.error), <<>>)

\* and_then(Result<T> result, Func &&func)
and_then(result, func) ==
    IF result.kind = "Success"
    THEN Invoked(func[payload(result)], <<payload(result)>>)
    ELSE Invoked(Failure(result.error), <<>>)

(***************************************************************************)
(* The caller of the value operations: one call at a time, its arguments   *)
(* and what it returned.                                                   *)
(***************************************************************************)
QIdle == [pc |-> "idle", fn |-> "none", args |-> <<>>, result |-> <<>>]

QCall(fn, args, result) == [pc |-> "done", fn |-> fn, args |-> args, result |-> result]

\* the integers a program casts to ExtraError
Evs == (0 - MaxUncataloged)..(Len(ExtraErrorNames) + MaxUncataloged)

RegistryCodes == {ErrorCode("ExtraError", ev) : ev \in Evs}

\* the codes is_any_of is called with
CandidateCodes ==
    {make_error_code(n) : n \in {"invalid_argument", "length_error", "unknown_error"}}

CandidateLists == UNION {[1..k -> CandidateCodes] : k \in 1..MaxCandidates}

\* the contexts make_error(error_type) is called with
RegexContexts == Contexts \cup {c \o STX : c \in Contexts}

\* the Results first_of is called with
Alternatives ==
    {Success(v) : v \in 0..MaxValue}
        \cup {make_error(code, context) :
                 code \in {std_make_error_code(errc("invalid_argument")),
                           make_error_code("bad_alloc")},
                 context \in Contexts}

AlternativeLists == UNION {[1..k -> Alternatives] : k \in 0..MaxAlternatives}

\* the Results transform and and_then are called with when T is void
VoidAlternatives ==
    {SuccessVoid} \cup {r \in Alternatives : r.kind = "Failure"}

\* the functions given to transform
TransformFuncs == [0..MaxValue -> 0..MaxValue]

VoidTransformFuncs == [{"void"} -> 0..MaxValue]

\* what a function given to and_then returns
AndThenOutcomes ==
    {Success(0), make_error(make_error_code("runtime_error"), <<"c">>)}

\* the functions given to and_then
AndThenFuncs == [0..MaxValue -> AndThenOutcomes]

VoidAndThenFuncs == [{"void"} -> AndThenOutcomes]

\* the codes of the Errors compared with a std::errc
ErrcSubjects ==
    ObjCodes \cup {ErrorCode(c, errc(n)) : c \in Categories, n \in ErrcNames}

\* Error(c, context).is(d)
CallIs ==
    /\ q.pc = "idle"
    /\ \E c \in RegistryCodes, d \in RegistryCodes, context \in Contexts :
         q' = QCall("is", [e |-> Error(c, context), code |-> d],
                    Error_is(Error(c, context), d))
    /\ UNCHANGED <<tc, errno, pc, frame, ret, objs>>

\* Error(c, context).is_any_of(d1, ..., dn)
CallIsAnyOf ==
    /\ q.pc = "idle"
    /\ \E c \in CandidateCodes, codes \in CandidateLists, context \in Contexts :
         q' = QCall("is_any_of", [e |-> Error(c, context), codes |-> codes],
                    is_any_of(Error(c, context), codes))
    /\ UNCHANGED <<tc, errno, pc, frame, ret, objs>>

\* e.is(k) and e == make_error_condition(k) for an ExtraErrorCondition k
CallIsCondition ==
    /\ q.pc = "idle"
    /\ \E c \in RegistryCodes \cup ObjCodes, context \in Contexts,
          k \in {ExtraErrorConditionNames[i] : i \in 1..Len(ExtraErrorConditionNames)} :
         q' = QCall("is_condition", [e |-> Error(c, context), condition |-> k],
                    [is |-> Error_is_condition(Error(c, context), k),
                     eq |-> Error_eq_condition(Error(c, context),
                                               make_error_condition(k))])
    /\ UNCHANGED <<tc, errno, pc, frame, ret, objs>>

\* Error(c, context).message() and make_error<T>(c, context).error().message()
CallMessage ==
    /\ q.pc = "idle"
    /\ \E c \in RegistryCodes \cup ObjCodes, context \in Contexts :
         q' = QCall("message", [code |-> c, context |-> context],
                    [direct |-> message(Error(c, context)),
                     made |-> message(make_error(c, context).error)])
    /\ UNCHANGED <<tc, errno, pc, frame, ret, objs>>

\* the two lookups of ExtraErrorCategory for one integer
CallCategory ==
    /\ q.pc = "idle"
    /\ \E ev \in Evs :
         q' = QCall("category", [ev |-> ev],
                    [message |-> ExtraErrorCategory_message(ev),
                     condition |-> default_error_condition(ev)])
    /\ UNCHANGED <<tc, errno, pc, frame, ret, objs>>

\* make_error<T>(std::regex_constants::error_type, context)
CallMakeErrorRegex ==
    /\ q.pc = "idle"
    /\ \E code \in RegexErrorTypes, context \in RegexContexts :
         q' = QCall("make_error_regex", [code |-> code, context |-> context],
                    make_error_regex(code, context))
    /\ UNCHANGED <<tc, errno, pc, frame, ret, objs>>

\* first_of({r1, ..., rn})
CallFirstOf ==
    /\ q.pc = "idle"
    /\ \E results \in AlternativeLists :
         q' = QCall("first_of", [results |-> results], first_of(results))
    /\ UNCHANGED <<tc, errno, pc, frame, ret, objs>>

\* transform(result, transform_func)
CallTransform ==
    /\ q.pc = "idle"
    /\ \/ \E result \in Alternatives, f \in TransformFuncs :
            q' = QCall("transform", [result |-> result, func |-> f],
                       transform(result, f))
       \/ \E result \in VoidAlternatives, f \in VoidTransformFuncs :
            q' = QCall("transform", [result |-> result, func |-> f],
                       transform(result, f))
    /\ UNCHANGED <<tc, errno, pc, frame, ret, objs>>

\* and_then(result, func)
CallAndThen ==
    /\ q.pc = "idle"
    /\ \/ \E result \in Alternatives, f \in AndThenFuncs :
            q' = QCall("and_then", [result |-> result, func |-> f],
                       and_then(result, f))
       \/ \E result \in VoidAlternatives, f \in VoidAndThenFuncs :
            q' = QCall("and_then", [result |-> result, func |-> f],
                       and_then(result, f))
    /\ UNCHANGED <<tc, errno, pc, frame, ret, objs>>

\* e.is(std::errc::x) and e == std::errc::x
CallIsErrc ==
    /\ q.pc = "idle"
    /\ \E c \in ErrcSubjects, context \in Contexts, name \in ErrcNames :
         q' = QCall("is_errc", [e |-> Error(c, context), errc |-> name],
                    [is |-> Error_is_errc(Error(c, context), name),
                     eq |-> Error_eq_errc(Error(c, context), name)])
    /\ UNCHANGED <<tc, errno, pc, frame, ret, objs>>

\* the caller drops the result
CallDone ==
    /\ q.pc = "done"
    /\ q' = QIdle
    /\ UNCHANGED <<tc, errno, pc, frame, ret, objs>>

(***************************************************************************)
(* Specifications.                                                         *)
(***************************************************************************)
Init ==
    /\ tc = TcIdle
    /\ errno = [l \in {errno_location(t) : t \in Threads} |-> 0]
    /\ pc = [t \in Threads |-> "idle"]
    /\ frame = [t \in Threads |-> IdleFrame]
    /\ ret = [t \in Threads |-> NoResult]
    /\ objs = [s \in Slots |-> DefaultError]
    /\ q = QIdle

\* try_catch and its caller
NextTryCatch == TryCatchCall \/ TryCatchDone

SpecTryCatch == Init /\ [][NextTryCatch]_vars

\* the errno translators and the code around them
NextErrno ==
    \E t \in Threads :
        \/ \E v \in 0..MaxErrno : SetErrno(t, v)
        \/ CallWithErrno(t, Contexts)
        \/ CallWithErrnoVoid(t, Contexts)
        \/ CallInvokeWithSyscallApi(t, Contexts)
        \/ CallMakeErrorFromErrno(t, Contexts)
        \/ ResetErrno(t)
        \/ RunFunc(t)
        \/ with_errno_check(t)
        \/ invoke_check(t)
        \/ last_error_read(t)
        \/ last_error_reset(t)
        \/ Return(t)

\* one thread calls the errno translators; the other never starts
InitErrno ==
    /\ tc = TcIdle
    /\ errno = [l \in {errno_location(t) : t \in Threads} |-> 0]
    /\ pc = [t \in Threads |-> IF t = "t1" THEN "idle" ELSE "off"]
    /\ frame = [t \in Threads |-> IdleFrame]
    /\ ret = [t \in Threads |-> NoResult]
    /\ objs = [s \in Slots |-> DefaultError]
    /\ q = QIdle

SpecErrno == InitErrno /\ [][NextErrno]_vars

\* with_errno and invoke_with_syscall_api, called from two threads at once,
\* every call with the same context
ThreadContexts == {<<"c">>}

NextThreads ==
    \E t \in Threads :
        \/ CallWithErrno(t, ThreadContexts)
        \/ CallWithErrnoVoid(t, ThreadContexts)
        \/ CallInvokeWithSyscallApi(t, ThreadContexts)
        \/ ResetErrno(t)
        \/ RunFunc(t)
        \/ with_errno_check(t)
        \/ invoke_check(t)
        \/ last_error_read(t)
        \/ last_error_reset(t)
        \/ Return(t)

SpecThreads == Init /\ [][NextThreads]_vars

\* Error objects in three slots, constructed, copied, moved and swapped
NextError ==
    \E d \in Slots :
        \/ DefaultConstruct(d)
        \/ \E code \in ObjCodes, context \in ObjContexts : Construct(d, code, context)
        \/ \E s \in Slots :
              \/ CopyConstruct(d, s)
              \/ MoveConstruct(d, s)
              \/ CopyAssign(d, s)
              \/ MoveAssign(d, s)
              \/ Swap(d, s)

SpecError == Init /\ [][NextError]_vars

\* the value operations, one call at a time
NextCalls ==
    \/ CallIs
    \/ CallIsAnyOf
    \/ CallIsCondition
    \/ CallMessage
    \/ CallCategory
    \/ CallMakeErrorRegex
    \/ CallFirstOf
    \/ CallTransform
    \/ CallAndThen
    \/ CallIsErrc
    \/ CallDone

SpecCalls == Init /\ [][NextCalls]_vars

Next == NextTryCatch \/ NextErrno \/ NextThreads \/ NextError \/ NextCalls

Spec == Init /\ [][Next]_vars

(***************************************************************************)
(* Properties of try_catch (SpecTryCatch).                                 *)
(***************************************************************************)
TcThrown == tc.func.thrown
TcFailed == tc.result.kind = "Failure"

\* the fault types that have a handler of their own
Cataloged ==
    { "invalid_argument", "domain_error", "length_error", "out_of_range",
      "future_error", "logic_error", "range_error", "overflow_error",
      "underflow_error", "regex_error", "system_error",
      "nonexistent_local_time", "ambiguous_local_time", "format_error",
      "runtime_error", "bad_alloc", "bad_typeid", "bad_cast",
      "bad_optional_access", "bad_expected_access", "bad_variant_access",
      "bad_weak_ptr", "bad_function_call", "bad_exception", "exception" }

RECURSIVE MostSpecific(_)
\* the nearest cataloged type a fault of type t is an instance of; "none" when
\* it is an instance of none
MostSpecific(t) ==
    IF t \in Cataloged THEN t
    ELSE IF Base(t) = "none" THEN "none"
    ELSE MostSpecific(Base(t))

\* the code the documented table gives a fault
TableCode(e) ==
    LET k == MostSpecific(e.type)
    IN  CASE k = "domain_error" -> ErrorCode("generic", EDOM)
          [] k \in {"out_of_range", "range_error"} -> ErrorCode("generic", ERANGE)
          [] k = "overflow_error" -> ErrorCode("generic", EOVERFLOW)
          [] k = "underflow_error" -> ErrorCode("ExtraError", ExtraError("value_too_small"))
          [] k \in {"future_error", "system_error"} -> e.code
          [] k = "regex_error" ->
               IF e.rcode \in {"error_space", "error_stack"}
               THEN ErrorCode("generic", ENOMEM)
               ELSE IF e.rcode = "error_complexity" THEN ErrorCode("generic", ERANGE)
               ELSE IF e.rcode = "unrecognized"
               THEN ErrorCode("ExtraError", ExtraError("unknown_error"))
               ELSE ErrorCode("generic", EINVAL)
          [] OTHER -> ErrorCode("ExtraError", ExtraError(k))

\* C1: a fault is classified by the most specific handler that matches it:
\* the Error carries the code the table gives the nearest cataloged type the
\* fault is an instance of, never that of a more general type (a regex_error,
\* which the claim's list leaves out, gets the pattern translator's code).
C1_Classification ==
    (tc.pc = "done" /\ tc.func.throws /\ MostSpecific(TcThrown.type) # "none")
        => /\ TcFailed
           /\ Error_is(tc.result.error, TableCode(TcThrown))

\* an invalid_argument, which the logic_error and exception handlers match
\* too, was reported as registry invalid_argument
C1_Witness ==
    /\ tc.pc = "done"
    /\ tc.func.throws
    /\ TcThrown.type = "invalid_argument"
    /\ TcFailed
    /\ Error_is(tc.result.error, make_error_code("invalid_argument"))

\* C2: whatever the wrapped operation does, try_catch returns a Result:
\* Success(value) when it returns, a Failure when it raises anything; no fault
\* reaches the caller.
C2_Total ==
    tc.pc = "done"
        => IF tc.func.throws
           THEN TcFailed
           ELSE tc.result = Success(tc.func.value)

\* a thrown int was turned into a Failure
C2_Witness ==
    /\ tc.pc = "done"
    /\ tc.func.throws
    /\ TcThrown.type = "int"
    /\ TcFailed

\* caller_context ": " fault_text when both are non-empty, else whichever is
\* non-empty, else empty
Joined(context, text) ==
    IF context # <<>> /\ text # <<>> THEN Format2(context, text)
    ELSE IF context # <<>> THEN context
    ELSE text

\* C3: in every branch that hands the fault's text on, the Error's context is
\* caller_context ": " fault_text when both are non-empty, whichever is
\* non-empty when one is, and empty when both are.
C3_Context ==
    (/\ tc.pc = "done"
     /\ tc.func.throws
     /\ MostSpecific(TcThrown.type) \notin {"none", "system_error"})
        => /\ TcFailed
           /\ tc.result.error.context_ = Joined(tc.context, TcThrown.what)

\* C4 as claimed: a non-cataloged fault yields unknown_exception with the
\* caller's context alone as the Error's context.
C4_ContextAlone ==
    (tc.pc = "done" /\ tc.func.throws /\ MostSpecific(TcThrown.type) = "none")
        => /\ TcFailed
           /\ Error_is(tc.result.error, make_error_code("unknown_exception"))
           /\ tc.result.error.context_ = tc.context

\* C4 as amended: a non-cataloged fault yields unknown_exception, and the
\* Error's context is the default description "Unknown exception", after
\* caller_context ": " when a context was given.
C4_DefaultDescription ==
    (tc.pc = "done" /\ tc.func.throws /\ MostSpecific(TcThrown.type) = "none")
        => /\ TcFailed
           /\ Error_is(tc.result.error, make_error_code("unknown_exception"))
           /\ tc.result.error.context_ =
                IF tc.context = <<>> THEN <<"Unknown exception">>
                ELSE Format2(tc.context, <<"Unknown exception">>)

\* a thrown int under a caller context was reported as unknown_exception
C4_Witness ==
    /\ tc.pc = "done"
    /\ tc.func.throws
    /\ TcThrown.type = "int"
    /\ tc.context # <<>>
    /\ TcFailed
    /\ Error_is(tc.result.error, make_error_code("unknown_exception"))

(***************************************************************************)
(* Properties of the errno translators (SpecErrno, SpecThreads).           *)
(***************************************************************************)
Returned(t, fns) == pc[t] = "done" /\ frame[t].fn \in fns

\* the Failure the errno translators build for indicator value v
ErrnoFailure(v, context) == Failure(Error(ErrorCode("generic", v), context))

\* C5: with_errno clears the indicator before op runs; it returns
\* Failure(built-in code = indicator, ctx) iff the indicator is non-zero when op
\* returns and Success(op's value) or Success(unit) otherwise; a value left
\* over from before the call yields no Failure; the indicator is 0 on return.
C5_WithErrno ==
    \A t \in Threads :
        Returned(t, {"with_errno", "with_errno_void"})
            => /\ frame[t].before = 0
               /\ errno[errno_location(t)] = 0
               /\ ret[t] = IF frame[t].after # 0
                           THEN ErrnoFailure(frame[t].after, frame[t].context)
                           ELSE IF frame[t].fn = "with_errno_void" THEN SuccessVoid
                           ELSE Success(frame[t].op.returns)
               /\ (~frame[t].op.writes => ret[t].kind = "Success")

\* with_errno was entered with a stale indicator, op stored another value,
\* and the Failure carries op's value
C5_Witness ==
    \E t \in Threads :
        /\ Returned(t, {"with_errno"})
        /\ frame[t].entry # 0
        /\ frame[t].op.writes
        /\ frame[t].op.val # frame[t].entry
        /\ ret[t] = ErrnoFailure(frame[t].op.val, frame[t].context)

\* C6 as claimed: with the indicator set to v # 0 before the call, with_errno
\* of an operation returning -1 under context "ctx" yields a Failure whose code
\* is the built-in code for v, and the indicator is 0 afterwards.
C6_StaleValueReported ==
    \A t \in Threads :
        (/\ Returned(t, {"with_errno"})
         /\ frame[t].entry # 0
         /\ frame[t].op.returns = -1
         /\ frame[t].context # <<>>)
            => /\ ret[t] = ErrnoFailure(frame[t].entry, frame[t].context)
               /\ errno[errno_location(t)] = 0

\* C6 as amended: with_errno of an operation returning -1 yields a Failure
\* with the built-in code for v exactly when the operation itself stored v # 0
\* in the indicator; a value set before the call is cleared and yields
\* Success(-1); the indicator is 0 afterwards either way.
C6_OwnValueReported ==
    \A t \in Threads :
        (Returned(t, {"with_errno"}) /\ frame[t].op.returns = -1)
            => /\ errno[errno_location(t)] = 0
               /\ ret[t] = IF frame[t].op.writes
                           THEN ErrnoFailure(frame[t].op.val, frame[t].context)
                           ELSE Success(-1)

\* the indicator was set before the call, op returned -1 without touching it,
\* and with_errno returned Success(-1)
C6_Witness ==
    \E t \in Threads :
        /\ Returned(t, {"with_errno"})
        /\ frame[t].entry # 0
        /\ frame[t].op.returns = -1
        /\ ~frame[t].op.writes
        /\ frame[t].context # <<>>
        /\ ret[t] = Success(-1)

\* C7: make_error_from_errno returns a Failure with the built-in code equal to
\* the indicator's value when it was called and context ctx, and leaves the
\* indicator at 0.
C7_MakeErrorFromErrno ==
    \A t \in Threads :
        Returned(t, {"make_error_from_errno"})
            => /\ ret[t] = ErrnoFailure(frame[t].entry, frame[t].context)
               /\ errno[errno_location(t)] = 0

\* make_error_from_errno was called with a non-zero indicator and a context
C7_Witness ==
    \E t \in Threads :
        /\ Returned(t, {"make_error_from_errno"})
        /\ frame[t].entry # 0
        /\ frame[t].context # <<>>
        /\ ret[t].kind = "Failure"
        /\ errno[errno_location(t)] = 0

\* C8: invoke_with_syscall_api clears the indicator, runs op, and returns
\* Failure(built-in code = indicator after op, ctx) iff op returned -1; every
\* other value r yields Success(r), whatever the indicator holds.
C8_SyscallApi ==
    \A t \in Threads :
        Returned(t, {"invoke_with_syscall_api"})
            => /\ frame[t].before = 0
               /\ ret[t] = IF frame[t].op.returns = -1
                           THEN ErrnoFailure(frame[t].after, frame[t].context)
                           ELSE Success(frame[t].op.returns)

\* op stored a value in the indicator and returned -2: Success(-2)
C8_Witness ==
    \E t \in Threads :
        /\ Returned(t, {"invoke_with_syscall_api"})
        /\ frame[t].op.writes
        /\ frame[t].op.returns = -2
        /\ ret[t] = Success(-2)

\* C9: for invoke_with_syscall_api the indicator is 0 immediately before op
\* runs and 0 when the call returns, on the Success and on the Failure path.
C9_ResetBeforeAndAfter ==
    \A t \in Threads :
        Returned(t, {"invoke_with_syscall_api"})
            => /\ frame[t].before = 0
               /\ errno[errno_location(t)] = 0

\* the Result of a call run alone, on an indicator nobody else touches
Alone(f) ==
    LET v == IF f.op.writes THEN f.op.val ELSE 0
    IN  CASE f.fn = "with_errno" ->
               IF v # 0 THEN ErrnoFailure(v, f.context) ELSE Success(f.op.returns)
          [] f.fn = "with_errno_void" ->
               IF v # 0 THEN ErrnoFailure(v, f.context) ELSE SuccessVoid
          [] f.fn = "invoke_with_syscall_api" ->
               IF f.op.returns = -1 THEN ErrnoFailure(v, f.context)
               ELSE Success(f.op.returns)

\* C10: with a per-thread indicator, in every interleaving of two threads
\* running with_errno or invoke_with_syscall_api, each thread's Result is the
\* Result of its own call run alone, and between op's return and the
\* translator's read the thread's indicator holds what its own op left.
C10_ThreadIsolation ==
    \A t \in Threads :
        /\ pc[t] = "done" => ret[t] = Alone(frame[t])
        /\ pc[t] \in {"check", "last_error"}
              => errno[errno_location(t)] = frame[t].after

\* both calls are in progress: t1 has read the fault its op set while t2,
\* whose op set none, is about to test its own indicator
C10_Witness ==
    /\ pc["t1"] = "last_error_reset"
    /\ frame["t1"].op.writes
    /\ frame["t1"].err = frame["t1"].op.val
    /\ pc["t2"] = "check"
    /\ frame["t2"].fn = "with_errno"
    /\ ~frame["t2"].op.writes
    /\ errno[errno_location("t2")] = 0

(***************************************************************************)
(* Properties of Error objects (SpecError).                                *)
(***************************************************************************)
\* the (domain, value) pair of an Error's stored code
Key(e) == <<e.error_code_.cat, e.error_code_.val>>

\* C11: for any two Errors a and b, a == b holds iff their (domain, value)
\* pairs are identical: the contexts play no part, and equal numeric values
\* of different domains compare unequal.
C11_Equality ==
    \A a \in Slots, b \in Slots :
        Error_eq(objs[a], objs[b]) <=> Key(objs[a]) = Key(objs[b])

\* e1 and e2 hold registry code 1 with different contexts and compare
\* equal; e3 holds built-in code 1 and compares unequal to e1
C11_Witness ==
    /\ objs["e1"].error_code_ = make_error_code("invalid_argument")
    /\ objs["e2"].error_code_ = make_error_code("invalid_argument")
    /\ objs["e1"].context_ # objs["e2"].context_
    /\ Error_eq(objs["e1"], objs["e2"])
    /\ objs["e3"].error_code_ = std_make_error_code(ExtraError("invalid_argument"))
    /\ ~Error_eq(objs["e1"], objs["e3"])

\* C14 as stated: boolean conversion is false for the default-constructed
\* Error and true for every other Error, however it was produced.
C14_OnlyDefaultIsFalse ==
    \A s \in Slots : Error_bool(objs[s]) <=> objs[s] # DefaultError

\* C14: boolean conversion of an Error is false exactly when the value of its
\* stored code is 0, whatever the code's domain and whatever the context:
\* false for the default-constructed Error, and false as well for an Error
\* constructed from a zero code with a context; true for every Error whose
\* code has a non-zero value, whatever sequence of construction, copy, move
\* or swap produced it.
C14_ZeroValueIsFalse ==
    \A s \in Slots :
        /\ Error_bool(objs[s]) <=> objs[s].error_code_.val # 0
        /\ objs[s] = DefaultError => ~Error_bool(objs[s])

\* e1 was constructed from the zero code with a context and is false, e2
\* holds a non-zero code and no context, as after a move into e3, and is true
C14_Witness ==
    /\ objs["e1"] = Error(NoCode, <<"c">>)
    /\ ~Error_bool(objs["e1"])
    /\ objs["e2"] = Error(make_error_code("invalid_argument"), <<>>)
    /\ objs["e3"] = Error(make_error_code("invalid_argument"), <<"c">>)
    /\ Error_bool(objs["e2"])

(***************************************************************************)
(* Properties of the value operations (SpecCalls).                         *)
(***************************************************************************)
\* C12: for registry Codes c and d and any context, Error(c).is(d) is true
\* iff c = d, and is_any_of(d1, ..., dn) is true iff at least one di
\* satisfies is(di).
C12_Is ==
    /\ q.fn = "is" => (q.result <=> q.args.e.error_code_.val = q.args.code.val)
    /\ q.fn = "is_any_of"
          => (q.result <=> \E i \in 1..Len(q.args.codes) :
                               Error_is(q.args.e, q.args.codes[i]))

\* is_any_of with three candidates of which only the last one matches
C12_Witness ==
    /\ q.fn = "is_any_of"
    /\ Len(q.args.codes) = 3
    /\ ~Error_is(q.args.e, q.args.codes[1])
    /\ ~Error_is(q.args.e, q.args.codes[2])
    /\ Error_is(q.args.e, q.args.codes[3])
    /\ q.result = TRUE

\* the Condition the registry is said to give each integer
LogicNames == {"invalid_argument", "length_error", "logic_error"}

RuntimeNames ==
    {"value_too_small", "nonexistent_local_time", "ambiguous_local_time",
     "format_error", "runtime_error"}

ResourceNames == {"bad_alloc", "bad_typeid", "bad_cast"}

AccessNames ==
    {"bad_optional_access", "bad_expected_access", "bad_variant_access",
     "bad_weak_ptr", "bad_function_call"}

IsCataloged(ev) == ev \in 1..Len(ExtraErrorNames)

ConditionOf(ev) ==
    IF ~IsCataloged(ev) THEN "other_error"
    ELSE IF ExtraErrorNames[ev] \in LogicNames THEN "logic_error"
    ELSE IF ExtraErrorNames[ev] \in RuntimeNames THEN "runtime_error"
    ELSE IF ExtraErrorNames[ev] \in ResourceNames THEN "resource_error"
    ELSE IF ExtraErrorNames[ev] \in AccessNames THEN "access_error"
    ELSE "other_error"

ConditionNames ==
    {ExtraErrorConditionNames[i] : i \in 1..Len(ExtraErrorConditionNames)}

\* C13: for every Error e and registry Condition k, e.is(k) and e == k are
\* true iff the default Condition of e's stored code equals k; an Error
\* holding a registry Code matches exactly one of the five Conditions, and
\* an Error holding a code of another domain matches none.
C13_ConditionMatch ==
    q.fn = "is_condition"
        => LET e == q.args.e
               k == q.args.condition
           IN  /\ q.result.is = q.result.eq
               /\ e.error_code_.cat = "ExtraError"
                     => /\ q.result.is <=> ConditionOf(e.error_code_.val) = k
                        /\ Cardinality({c \in ConditionNames :
                                           Error_is_condition(e, c)}) = 1
               /\ e.error_code_.cat # "ExtraError" => ~q.result.is

\* length_error (value 2) is asked about logic_error (value 1) and matches
C13_Witness ==
    /\ q.fn = "is_condition"
    /\ q.args.e.error_code_ = make_error_code("length_error")
    /\ q.args.condition = "logic_error"
    /\ ExtraError("length_error") # ExtraErrorCondition("logic_error")
    /\ q.result.is = TRUE
    /\ q.result.eq = TRUE

\* C15: for every code c and context x, Error(c, x).message() and
\* make_error<T>(c, x).error().message() equal the domain message of c when
\* x is empty, and x + ": " + the domain message of c when x is non-empty.
C15_Message ==
    q.fn = "message"
        => LET x == q.args.context
               domain_message == error_code_message(q.args.code)
               expected == IF x = <<>> THEN domain_message
                           ELSE x \o <<":", " ">> \o domain_message
           IN  /\ q.result.direct = expected
               /\ q.result.made = expected

\* both cases of C15 need a call; this one has no context
C15_Witness ==
    /\ q.fn = "message"
    /\ q.args.code = make_error_code("bad_alloc")
    /\ q.args.context = <<>>
    /\ q.result.direct = <<"Bad allocation exception">>
    /\ q.result.made = <<"Bad allocation exception">>

\* C16: the registry lookups are total and single-valued: the default
\* Condition is the one listed for each cataloged value and other for every
\* remaining integer; the message lookup returns the "unrecognized" message
\* for exactly the uncataloged values.
C16_Lookups ==
    q.fn = "category"
        => /\ q.result.condition = make_error_condition(ConditionOf(q.args.ev))
           /\ IsCataloged(q.args.ev)
                 <=> q.result.message # <<"Unrecognized ExtraError">>

\* the first integer past the catalog
C16_Witness ==
    /\ q.fn = "category"
    /\ q.args.ev = Len(ExtraErrorNames) + 1
    /\ q.result.condition = make_error_condition("other_error")
    /\ q.result.message = <<"Unrecognized ExtraError">>

\* the code the pattern translator is said to give each identifier
RegexCodeOf(code) ==
    IF code \in {"error_space", "error_stack"}
    THEN std_make_error_code(errc("not_enough_memory"))
    ELSE IF code = "error_complexity"
    THEN std_make_error_code(errc("result_out_of_range"))
    ELSE IF code = "unrecognized" THEN make_error_code("unknown_error")
    ELSE std_make_error_code(errc("invalid_argument"))

\* the description of an identifier: what the translator stores when it is
\* given no context
RegexDescriptionOf(code) == make_error_regex(code, <<>>).error.context_

\* C17: make_error<T>(pattern_code, ctx) gives each of the 13 identifiers its
\* built-in code and every unrecognized identifier the registry unknown_error
\* code with description "Regex error: unknown error"; the Error's context is
\* the description when ctx is empty and ctx + ": " + description otherwise.
C17_RegexTable ==
    /\ RegexDescriptionOf("unrecognized") = <<"Regex error: unknown error">>
    /\ q.fn = "make_error_regex"
          => LET ctx == q.args.context
                 description == RegexDescriptionOf(q.args.code)
             IN  q.result =
                     Failure(Error(RegexCodeOf(q.args.code),
                                   IF ctx = <<>> THEN description
                                   ELSE ctx \o <<":", " ">> \o description))

\* the Success with the smallest index
FirstSuccess(results) ==
    results[CHOOSE i \in 1..Len(results) :
                /\ results[i].kind = "Success"
                /\ \A j \in 1..(i - 1) : results[j].kind # "Success"]

AllFailures(results) ==
    \A i \in 1..Len(results) : results[i].kind = "Failure"

\* C18: first_of(r1, ..., rn) returns the Success with the smallest index,
\* with its payload unchanged, whenever at least one ri is a Success.
C18_FirstSuccess ==
    (q.fn = "first_of" /\ ~AllFailures(q.args.results))
        => q.result = FirstSuccess(q.args.results)

\* a Failure, then two Successes with different payloads
C18_Witness ==
    /\ q.fn = "first_of"
    /\ Len(q.args.results) = 3
    /\ q.args.results[1].kind = "Failure"
    /\ q.args.results[2] = Success(1)
    /\ q.args.results[3] = Success(0)
    /\ q.result = Success(1)

\* the inputs' rendered messages joined in input order with "; "
RECURSIVE JoinedMessages(_)
JoinedMessages(results) ==
    IF Len(results) = 1
    THEN message(results[1].error)
    ELSE message(results[1].error) \o <<";", " ">> \o JoinedMessages(Tail(results))

\* C19 as stated: when every ri is a Failure (n >= 1), first_of returns one
\* Failure tagged with a built-in-domain code whose message equals the
\* inputs' rendered messages joined in input order with "; ".
C19_BuiltinCombined ==
    (q.fn = "first_of" /\ Len(q.args.results) >= 1 /\ AllFailures(q.args.results))
        => /\ q.result.kind = "Failure"
           /\ q.result.error.error_code_.cat = "generic"
           /\ message(q.result.error) = JoinedMessages(q.args.results)

\* C19: when every ri is a Failure (n >= 1), first_of returns one Failure
\* tagged with the registry's unknown_error code; its context is the inputs'
\* rendered messages joined in input order with "; ", and its message is that
\* text followed by ": " and the registry's message of unknown_error.
C19_RegistryCombined ==
    (q.fn = "first_of" /\ Len(q.args.results) >= 1 /\ AllFailures(q.args.results))
        => /\ q.result.kind = "Failure"
           /\ q.result.error.error_code_ = ErrorCode("ExtraError", ExtraError("unknown_error"))
           /\ q.result.error.context_ = JoinedMessages(q.args.results)
           /\ message(q.result.error)
                  = JoinedMessages(q.args.results) \o <<":", " ", "Unknown error">>

\* two Failures with different messages, the first with a context
C19_Witness ==
    /\ q.fn = "first_of"
    /\ q.args.results = << make_error(std_make_error_code(errc("invalid_argument")), <<"c">>),
                           make_error(make_error_code("bad_alloc"), <<>>) >>
    /\ q.result.error.context_
           = <<"c", ":", " ">> \o error_code_message(std_make_error_code(errc("invalid_argument")))
                 \o <<";", " ", "Bad allocation exception">>

\* C20: first_of over an empty list returns a Failure whose code equals
\* built-in invalid_argument and whose message is "No alternatives provided: "
\* followed by the platform message of invalid_argument.
C20_EmptyList ==
    (q.fn = "first_of" /\ q.args.results = <<>>)
        => /\ q.result.kind = "Failure"
           /\ q.result.error.error_code_ = ErrorCode("generic", EINVAL)
           /\ message(q.result.error)
                  = <<"No alternatives provided", ":", " ">>
                        \o error_code_message(ErrorCode("generic", EINVAL))

C20_Witness ==
    /\ q.fn = "first_of"
    /\ q.args.results = <<>>
    /\ q.result.kind = "Failure"
    /\ q.result.error.context_ = <<"No alternatives provided">>

(***************************************************************************)
(* Properties of transform and and_then (SpecCalls).                       *)
(***************************************************************************)
\* the argument the function is to be given for a Success
ArgumentOf(result) == IF result = SuccessVoid THEN "void" ELSE result.value

\* C21: transform(r, f) and and_then(r, f) never invoke f when r is a Failure
\* and return a Failure carrying r's Error with the same code and context;
\* when r is a Success they return f applied to the payload, rewrapped as
\* Success for transform and returned as is for and_then.
C21_TransformAndThen ==
    q.fn \in {"transform", "and_then"}
        => LET r == q.args.result
               f == q.args.func
               out == q.result
           IN  /\ r.kind = "Failure"
                     => /\ out.calls = <<>>
                        /\ out.value.kind = "Failure"
                        /\ out.value.error.error_code_ = r.error.error_code_
                        /\ out.value.error.context_ = r.error.context_
               /\ (r.kind = "Success" /\ q.fn = "transform")
                     => out.value = Success(f[ArgumentOf(r)])
               /\ (r.kind = "Success" /\ q.fn = "and_then")
                     => out.value = f[ArgumentOf(r)]

\* transform is given a Failure that has a context
C21_Witness ==
    /\ q.fn = "transform"
    /\ q.args.result = make_error(make_error_code("bad_alloc"), <<"c">>)
    /\ q.result.calls = <<>>
    /\ q.result.value = make_error(make_error_code("bad_alloc"), <<"c">>)

(***************************************************************************)
(* Properties of copy, move, swap, order and hash (SpecError).             *)
(***************************************************************************)
\* the objects after s is moved into d, by construction and by assignment
Moved(d, s) == {move_construct(objs, d, s), move_assign(objs, d, s)}

\* the objects after s is copied into d, by construction and by assignment
Copied(d, s) == {copy_construct(objs, d, s), copy_assign(objs, d, s)}

\* the objects o after slot d is given a new value
Rebuilt(o, d) ==
    {default_construct(o, d)}
        \cup {construct(o, d, code, context) : code \in ObjCodes, context \in ObjContexts}

\* C22: after move-construction or move-assignment from Error s into another
\* Error d, d holds s's original (code, context) pair and s's context is
\* empty; a copy leaves the source unchanged, and a later change to one of
\* the two Errors never affects the other.
C22_MoveAndCopy ==
    \A d \in Slots : \A s \in Slots \ {d} :
        /\ \A m \in Moved(d, s) :
               /\ m[d] = objs[s]
               /\ m[s].context_ = <<>>
               /\ \A later \in Rebuilt(m, s) : later[d] = m[d]
               /\ \A later \in Rebuilt(m, d) : later[s] = m[s]
        /\ \A c \in Copied(d, s) :
               /\ c[d] = objs[s]
               /\ c[s] = objs[s]
               /\ \A later \in Rebuilt(c, s) : later[d] = c[d]
               /\ \A later \in Rebuilt(c, d) : later[s] = c[s]

\* e1 has lost its context to e2, which holds the pair e1 had
C22_Witness ==
    /\ objs["e1"] = Error(std_make_error_code(MaxErrno), <<>>)
    /\ objs["e2"] = Error(std_make_error_code(MaxErrno), <<"c">>)
    /\ objs["e3"] = DefaultError
    /\ move_construct(objs, "e3", "e2")["e2"] = objs["e1"]

\* C23: swap(e1, e2) exactly exchanges the (code, context) pairs of the two
\* Errors and touches no other Error; applying swap twice restores the
\* original state, and a change made to one Error after the swap never
\* affects the other.
C23_Swap ==
    \A a \in Slots, b \in Slots :
        LET swapped == swap(objs, a, b)
        IN  /\ swapped[a] = objs[b]
            /\ swapped[b] = objs[a]
            /\ \A o \in Slots \ {a, b} : swapped[o] = objs[o]
            /\ swap(swapped, a, b) = objs
            /\ a # b => \A later \in Rebuilt(swapped, a) : later[b] = swapped[b]

\* e1 and e2 differ in code and in context, so that an exchange shows
C23_Witness ==
    /\ objs["e1"] = Error(make_error_code("length_error"), <<>>)
    /\ objs["e2"] = Error(std_make_error_code(ExtraError("invalid_argument")), <<"c">>)
    /\ swap(objs, "e1", "e2")["e1"] = objs["e2"]
    /\ swap(objs, "e1", "e2")["e2"] = objs["e1"]
    /\ swap(objs, "e1", "e2") # objs

ExactlyOne(p1, p2, p3) ==
    \/ (p1 /\ ~p2 /\ ~p3)
    \/ (~p1 /\ p2 /\ ~p3)
    \/ (~p1 /\ ~p2 /\ p3)

\* C24: ordering and hashing of Errors use the same (domain, value) key as
\* equality: for all Errors a and b exactly one of a < b, a == b, b < a
\* holds; a == b implies hash(a) == hash(b); the context never influences the
\* order or the hash.  This holds wherever the build places the categories.
C24_OrderAndHash ==
    \A order \in CategoryOrders, a \in Slots, b \in Slots :
        LET x == objs[a]
            y == objs[b]
        IN  /\ ExactlyOne(Error_less(order, x, y), Error_eq(x, y),
                          Error_less(order, y, x))
            /\ Error_compare(order, x, y) = "equal" <=> Key(x) = Key(y)
            /\ Error_eq(x, y) => Error_hash(order, x) = Error_hash(order, y)
            /\ \A context \in ObjContexts :
                   /\ Error_compare(order, Error(x.error_code_, context), y)
                          = Error_compare(order, x, y)
                   /\ Error_hash(order, Error(x.error_code_, context))
                          = Error_hash(order, x)

\* e1 and e2 hold one code with different contexts; e3 holds the same value
\* in another domain and is ordered before or after e1
C24_Witness ==
    /\ objs["e1"] = Error(make_error_code("invalid_argument"), <<"c">>)
    /\ objs["e2"] = Error(make_error_code("invalid_argument"), <<>>)
    /\ objs["e3"].error_code_ = ErrorCode("system", ExtraError("invalid_argument"))
    /\ \A order \in CategoryOrders :
           /\ Error_compare(order, objs["e1"], objs["e2"]) = "equal"
           /\ Error_hash(order, objs["e1"]) = Error_hash(order, objs["e2"])
           /\ Error_less(order, objs["e1"], objs["e3"])
                  # Error_less(order, objs["e3"], objs["e1"])

\* C29: move-construction and move-assignment leave the source Error's code
\* untouched: a moved-from Error that held a non-zero code still holds that
\* code, still evaluates as boolean true and still compares equal to the
\* destination; only its context is emptied.
C29_MoveKeepsCode ==
    \A d \in Slots : \A s \in Slots \ {d} : \A m \in Moved(d, s) :
        /\ m[s].error_code_ = objs[s].error_code_
        /\ Error_bool(objs[s]) => Error_bool(m[s])
        /\ Error_eq(m[s], m[d])
        /\ m[s].context_ = <<>>
        /\ m[d].context_ = objs[s].context_

\* e3 is true and equal to e1 although it has no context left
C29_Witness ==
    /\ objs["e3"] = Error(make_error_code("invalid_argument"), <<>>)
    /\ objs["e1"] = Error(make_error_code("invalid_argument"), <<"c">>)
    /\ Error_bool(objs["e3"])
    /\ Error_eq(objs["e3"], objs["e1"])
    /\ move_assign(objs, "e2", "e1")["e1"] = objs["e3"]

(***************************************************************************)
(* Further properties of try_catch (SpecTryCatch).                         *)
(***************************************************************************)
\* C25: for a fault that embeds a system error code c (std::system_error),
\* try_catch yields an Error whose code is c and whose message is exactly the
\* message of c when no context is given, and caller_context + ": " + the
\* message of c when a context is given, with no empty segment.
C25_SystemErrorMessage ==
    (/\ tc.pc = "done"
     /\ tc.func.throws
     /\ MostSpecific(TcThrown.type) = "system_error")
        => /\ TcFailed
           /\ tc.result.error.error_code_ = TcThrown.code
           /\ message(tc.result.error)
                  = IF tc.context = <<>>
                    THEN error_code_message(TcThrown.code)
                    ELSE tc.context \o <<":", " ">> \o error_code_message(TcThrown.code)

\* the text t holds the token x
Holds(t, x) == \E i \in 1..Len(t) : t[i] = x

\* C26: for a pattern-engine fault raised inside try_catch, the Error has the
\* code the pattern translator assigns to the fault's identifier; its context
\* is caller_context + ": " + fault_text (fault_text alone when there is no
\* caller context), without the translator's generic description, and the
\* suppress-marker byte does not appear in the stored context.
C26_RegexFault ==
    (/\ tc.pc = "done"
     /\ tc.func.throws
     /\ TcThrown.type = "regex_error")
        => /\ TcFailed
           /\ tc.result.error.error_code_ = RegexCodeOf(TcThrown.rcode)
           /\ tc.result.error.context_
                  = IF tc.context = <<>> THEN TcThrown.what
                    ELSE tc.context \o <<":", " ">> \o TcThrown.what
           /\ ~Holds(tc.result.error.context_, RegexDescriptionOf(TcThrown.rcode)[1])
           /\ ~Holds(tc.result.error.context_, STX[1])

\* a regex_error with a text, caught by a try_catch that was given a context
C26_Witness ==
    /\ tc.pc = "done"
    /\ tc.func.throws
    /\ TcThrown.type = "regex_error"
    /\ TcThrown.rcode = "error_brack"
    /\ tc.result.error.error_code_ = ErrorCode("generic", EINVAL)
    /\ tc.result.error.context_ = <<"c", ":", " ", "w">>

(***************************************************************************)
(* Further properties of the value operations (SpecCalls).                 *)
(***************************************************************************)
\* C27: a direct call make_error<T>(pattern_code, ctx) with any non-empty
\* ctx, including one whose last byte is 0x02, yields an Error whose context
\* is ctx + ": " + the generic description.
C27_DirectCallKeepsDescription ==
    (q.fn = "make_error_regex" /\ q.args.context # <<>>)
        => q.result.error.context_
               = q.args.context \o <<":", " ">> \o RegexDescriptionOf(q.args.code)

\* C30: for every Error e and every std::errc candidate c, e.is(c) returns the
\* same truth value as e == c.
C30_IsSameAsEq ==
    q.fn = "is_errc" => q.result.is = q.result.eq

(***************************************************************************)
(* Further properties of the errno translators (SpecErrno).                *)
(***************************************************************************)
\* C28: every Failure returned by with_errno or invoke_with_syscall_api
\* carries an Error with a non-zero code: it evaluates as boolean true.
C28_FailureIsTruthy ==
    \A t \in Threads :
        (/\ Returned(t, {"with_errno", "with_errno_void", "invoke_with_syscall_api"})
         /\ ret[t].kind = "Failure")
            => Error_bool(ret[t].error)
====
